---------------------------- MODULE Spec2Model ----------------------------
(***************************************************************************)
(* Model of restic's "find" command (src/cmds/restic/cmd_find.go): the     *)
(* recursive tree search with its negative cache (Finder.findInTree), the  *)
(* snapshot loop of runFind and the stateful output sink (statefulOutput). *)
(*                                                                         *)
(* Names are sequences of one-character strings, a path is the sequence of *)
(* the names on it (the root prefix "/" is the empty sequence), a time is  *)
(* an integer (0 is Go's zero time.Time, values >= 10000 stand for years   *)
(* that encoding/json refuses), a TreeID is a number and a snapshot is     *)
(* identified by its position in the sequence the Snapshot Source yields.  *)
(***************************************************************************)
EXTENDS Integers, Sequences, FiniteSets

VARIABLES
    toolchain,  \* the Go release the program is built with: "go1.15" for
                \* path/filepath before Go 1.16, "go1.16" from then on
    args,       \* runFind's args: the patterns given on the command line
    opts,       \* FindOptions and GlobalOptions: Oldest, Newest,
                \* CaseInsensitive, ListLong, NoLock, JSON
    cancelled,  \* whether gopts.ctx, the parent of runFind's ctx, is cancelled
    lock,       \* the repository lock: "none", "held", "failed", "released"
    defers,     \* the deferred calls runFind has registered, in order
    events,     \* history: the calls runFind has made to its collaborators
    repo,       \* Tree Store: TreeID -> sequence of nodes (Finder.repo)
    snapshots,  \* the sequence FindFilteredSnapshots yields: root TreeIDs
    pat,        \* findPattern: pattern, ignoreCase, oldest, newest
    out,        \* statefulOutput: ListLong, JSON, inuse, newsn, oldsn, hits
    notfound,   \* Finder.notfound: the negative cache, a set of TreeIDs
    stack,      \* call stack of findInTree: one frame per active call
    next,       \* index of the next snapshot the range loop receives
    pc,         \* position of runFind: "start", "open", "lock", "index", then
                \* "loop", "enter", "scan", "unwind", and "done" once it returned
    err,        \* the error being returned (NoErr: none)
    stdout,     \* what Printf and Verbosef have written, token by token
    loads,      \* history: the TreeIDs passed to repo.LoadTree, in order
    invoked,    \* history: the findInTree invocations (snapshot, tree, prefix)
    calls       \* history: the calls of the sink's Print (snapshot, prefix, node)

vars == <<toolchain, args, opts, cancelled, lock, defers, events, repo, snapshots, pat, out, notfound, stack, next, pc, err,
          stdout, loads, invoked, calls>>

-----------------------------------------------------------------------------
(* Bounds of the model *)

\* longest sequence of snapshots the Snapshot Source yields
MaxSnapshots == 2

-----------------------------------------------------------------------------
(* Values *)

NoErr == [kind |-> "nil"]
ErrBadPattern == [kind |-> "ErrBadPattern"]
LoadError(treeID) == [kind |-> "LoadTree", tree |-> treeID]

\* time.Time{}: the value of an unset bound
ZeroTime == 0

\* nil *restic.Snapshot
NilSnapshot == 0

\* string(filepath.Separator) as the prefix of a root tree
RootPrefix == << >>

Range(s) == {s[i] : i \in DOMAIN s}

Count(s, x) == Cardinality({i \in DOMAIN s : s[i] = x})

\* Op at the value of x, and at the values of x and y: the arguments are
\* evaluated once, before Op is applied (an operator evaluates an argument
\* again at every use, which a recursion multiplies at every level)
At(Op(_), x) == CHOOSE r \in {Op(v) : v \in {x}} : TRUE

At2(Op(_, _), x, y) == CHOOSE r \in {Op(v, w) : v \in {x}, w \in {y}} : TRUE

-----------------------------------------------------------------------------
(* strings.ToLower and filepath.Match, on names as character sequences *)

LowerChar(c) == CASE c = "A" -> "a" [] c = "B" -> "b" [] OTHER -> c

ToLower(name) == [i \in DOMAIN name |-> LowerChar(name[i])]

Suffix(s, k) == SubSeq(s, k + 1, Len(s))

\* the characters of the model in byte order; a character is compared
\* with the bounds of a range by its place in this order
Alphabet ==
    <<"\n", "\"", "%", "*", "-", "/", "?", "A", "B", "[", "\\", "]", "^", "a", "b", "d">>

\* the rune that matchChunk holds once the match has failed (Go 1.16): 0
NoRune == ""

CharCode(c) ==
    IF c = NoRune THEN 0 ELSE CHOOSE i \in DOMAIN Alphabet : Alphabet[i] = c

\* filepath.Separator
PathSeparator == "/"

\* the result of a failed call of getEsc, of a broken class, of matchChunk
BadEsc == [err |-> TRUE, r |-> NoRune, rest |-> << >>]

\* getEsc(chunk): the possibly escaped character at the start of a class
\* range and what follows it; ErrBadPattern if the chunk is empty, starts
\* with "-" or "]", ends in a backslash or ends with the character
getEsc(chunk) ==
    IF chunk = << >> \/ Head(chunk) \in {"-", "]"} THEN BadEsc
    ELSE LET c == IF Head(chunk) = "\\" THEN Tail(chunk) ELSE chunk
         IN IF c = << >> THEN BadEsc
            ELSE [err |-> Tail(c) = << >>, r |-> Head(c), rest |-> Tail(c)]

\* matchChunk, "parse all ranges": chunk follows "[" and "^", r is the
\* character of the name, match whether a range held it so far, nrange the
\* number of ranges read. Gives whether the class is malformed, whether r
\* is in a range and what follows the closing "]".
RECURSIVE ParseRanges(_, _, _, _)
ParseRanges(chunk, r, match, nrange) ==
    IF chunk # << >> /\ Head(chunk) = "]" /\ nrange > 0
    THEN [err |-> FALSE, match |-> match, rest |-> Tail(chunk)]
    ELSE LET lo == getEsc(chunk)
         IN IF lo.err THEN [err |-> TRUE, match |-> FALSE, rest |-> << >>]
            ELSE IF Head(lo.rest) = "-"
            THEN LET hi == getEsc(Tail(lo.rest))
                 IN IF hi.err THEN [err |-> TRUE, match |-> FALSE, rest |-> << >>]
                    ELSE At2(LAMBDA c, m : ParseRanges(c, r, m, nrange + 1), hi.rest,
                             match \/ (CharCode(lo.r) <= CharCode(r)
                                       /\ CharCode(r) <= CharCode(hi.r)))
            ELSE At2(LAMBDA c, m : ParseRanges(c, r, m, nrange + 1), lo.rest,
                     match \/ lo.r = r)

\* matchChunk on a class: p starts with "[", r is the character of the name
ParseClass(p, r) ==
    LET negated == Len(p) > 1 /\ p[2] = "^"
        ranges == ParseRanges(IF negated THEN Suffix(p, 2) ELSE Tail(p), r, FALSE, 0)
    IN [err |-> ranges.err, hit |-> ranges.match # negated, rest |-> ranges.rest]

\* position of the "]" that closes the character class that starts at
\* p[1] = "[", 0 if the class is malformed (ErrBadPattern)
ClassEnd(p) ==
    LET c == ParseClass(p, NoRune)
    IN IF c.err THEN 0 ELSE Len(p) - Len(c.rest)

\* scanChunk, the loop that looks for the end of the chunk: the index of
\* the first "*" outside a class at or after i, Len(p) + 1 if there is none
RECURSIVE ChunkEnd(_, _, _)
ChunkEnd(p, i, inrange) ==
    IF i > Len(p) THEN i
    ELSE IF p[i] = "\\"
    THEN At(LAMBDA j : ChunkEnd(p, j, inrange), IF i + 1 <= Len(p) THEN i + 2 ELSE i + 1)
    ELSE IF p[i] = "[" THEN ChunkEnd(p, i + 1, TRUE)
    ELSE IF p[i] = "]" THEN ChunkEnd(p, i + 1, FALSE)
    ELSE IF p[i] = "*" /\ ~inrange THEN i
    ELSE ChunkEnd(p, i + 1, inrange)

RECURSIVE SkipStars(_)
SkipStars(p) == IF p # << >> /\ Head(p) = "*" THEN At(SkipStars, Tail(p)) ELSE p

\* scanChunk(pattern): whether stars lead the pattern, the chunk up to the
\* next star and the rest of the pattern
scanChunk(pattern) ==
    LET p == SkipStars(pattern)
        e == ChunkEnd(p, 1, FALSE)
    IN [star |-> p # pattern, chunk |-> SubSeq(p, 1, e - 1), rest |-> Suffix(p, e - 1)]

\* matchChunk(chunk, s): whether chunk matches a prefix of s and the rest
\* of s then, or ErrBadPattern. Before Go 1.16 it returns at the first
\* character that does not match; from Go 1.16 on (strict) it reads the
\* chunk to its end as failed, to report a malformed chunk.
RECURSIVE matchChunk(_, _, _, _)
matchChunk(chunk, s, strict, failed) ==
    LET nomatch == [rest |-> << >>, ok |-> FALSE, err |-> FALSE]
        bad == [rest |-> << >>, ok |-> FALSE, err |-> TRUE]
        \* the loop goes on with the chunk c and the name t, the character
        \* at hand having matched (hit) or not
        on(c, t, hit) ==
            IF hit /\ ~failed THEN At2(LAMBDA x, y : matchChunk(x, y, strict, FALSE), c, t)
            ELSE IF strict THEN At2(LAMBDA x, y : matchChunk(x, y, strict, TRUE), c, t)
            ELSE nomatch
        \* the name after the character at hand is taken from it
        t == IF failed THEN s ELSE Tail(s)
    IN IF chunk = << >> THEN (IF failed THEN nomatch
                              ELSE [rest |-> s, ok |-> TRUE, err |-> FALSE])
       ELSE IF ~failed /\ s = << >>
       THEN (IF strict THEN matchChunk(chunk, s, strict, TRUE) ELSE nomatch)
       ELSE IF Head(chunk) = "["
       THEN LET c == ParseClass(chunk, IF failed THEN NoRune ELSE Head(s))
            IN IF c.err THEN bad ELSE on(c.rest, t, c.hit)
       ELSE IF Head(chunk) = "?"
       THEN on(Tail(chunk), t, failed \/ Head(s) # PathSeparator)
       ELSE LET c == IF Head(chunk) = "\\" THEN Tail(chunk) ELSE chunk
            IN IF c = << >> THEN bad
               ELSE on(Tail(c), t, failed \/ Head(c) = Head(s))

\* Match from Go 1.16 on, "check that the remainder of the pattern is
\* syntactically valid" before false is returned without an error
RECURSIVE RestValid(_)
RestValid(pattern) ==
    IF pattern = << >> THEN TRUE
    ELSE LET sc == scanChunk(pattern)
         IN ~At(LAMBDA c : matchChunk(c, << >>, TRUE, FALSE), sc.chunk).err
            /\ At(RestValid, sc.rest)

\* what Match returns when the chunk matches nowhere
NoMatch(rest, strict) == IF strict /\ ~RestValid(rest) THEN "bad" ELSE "no"

\* filepath.Match(pattern, name) of the Go release: "yes", "no" or "bad"
\* (ErrBadPattern). The pattern is matched chunk by chunk; after a star the
\* chunk is tried at name[i+1:] for i = 0, 1, ... (MatchStar).
RECURSIVE MatchGo(_, _, _), MatchStar(_, _, _, _, _)
MatchGo(pattern, name, strict) ==
    IF pattern = << >> THEN (IF name = << >> THEN "yes" ELSE "no")
    ELSE LET sc == scanChunk(pattern)
             m == At2(LAMBDA c, n : matchChunk(c, n, strict, FALSE), sc.chunk, name)
         IN IF sc.star /\ sc.chunk = << >>
            THEN (IF PathSeparator \in Range(name) THEN "no" ELSE "yes")
            ELSE IF m.ok /\ (m.rest = << >> \/ sc.rest # << >>)
            THEN At2(LAMBDA p, n : MatchGo(p, n, strict), sc.rest, m.rest)
            ELSE IF m.err THEN "bad"
            ELSE IF sc.star THEN MatchStar(sc.chunk, sc.rest, name, 0, strict)
            ELSE NoMatch(sc.rest, strict)

MatchStar(chunk, rest, name, i, strict) ==
    IF i >= Len(name) \/ name[i + 1] = PathSeparator THEN NoMatch(rest, strict)
    ELSE LET m == At2(LAMBDA c, n : matchChunk(c, n, strict, FALSE), chunk, Suffix(name, i + 1))
         IN IF m.ok
            THEN (IF rest = << >> /\ m.rest # << >>
                  THEN MatchStar(chunk, rest, name, i + 1, strict)
                  ELSE At2(LAMBDA p, n : MatchGo(p, n, strict), rest, m.rest))
            ELSE IF m.err THEN "bad"
            ELSE MatchStar(chunk, rest, name, i + 1, strict)

\* filepath.Match before Go 1.16
Match(p, s) == MatchGo(p, s, FALSE)

\* filepath.Match from Go 1.16 on: a malformed pattern is reported also
\* when the name does not reach the malformed part
MatchStrict(p, s) == MatchGo(p, s, TRUE)

\* filepath.Join(prefix, name)
Join(prefix, name) == Append(prefix, name)

-----------------------------------------------------------------------------
(* findPattern *)

\* runFind, the construction of pat: the pattern is lower-cased when the
\* search ignores case
MakePattern(arg, caseInsensitive, oldest, newest) ==
    [pattern    |-> IF caseInsensitive THEN ToLower(arg) ELSE arg,
     ignoreCase |-> caseInsensitive,
     oldest     |-> oldest,
     newest     |-> newest]

IsZero(t) == t = ZeroTime

\* errors.Fatal("wrong number of arguments")
WrongArgsError == [kind |-> "wrong number of arguments"]

\* errors.Fatalf("unable to parse time: %q", str)
ParseTimeError(str) == [kind |-> "unable to parse time", str |-> str]

\* the errors of OpenRepository, lockRepo and repo.LoadIndex
OpenError == [kind |-> "OpenRepository"]
LockError == [kind |-> "lockRepo"]
IndexError == [kind |-> "LoadIndex"]

\* A date/time string of the command line: the layout it is written in and
\* the instant it denotes. The empty string is the option left unset.
TimeString(layout, value) == [layout |-> layout, value |-> value]

EmptyString == TimeString("", ZeroTime)

timeFormats ==
    <<"2006-01-02", "2006-01-02 15:04", "2006-01-02 15:04:05",
      "2006-01-02 15:04:05 -0700", "2006-01-02 15:04:05 MST",
      "02.01.2006", "02.01.2006 15:04", "02.01.2006 15:04:05",
      "02.01.2006 15:04:05 -0700", "02.01.2006 15:04:05 MST",
      "Mon Jan 2 15:04:05 -0700 MST 2006">>

\* time.ParseInLocation(fmt, str, time.Local) succeeds when str is written
\* in the layout fmt
ParseInLocation(fmt, str) ==
    IF str.layout = fmt THEN [err |-> NoErr, t |-> str.value]
    ELSE [err |-> [kind |-> "parsing time"], t |-> ZeroTime]

\* parseTime: the first layout of timeFormats that parses str gives the time
parseTime(str) ==
    LET fits == {i \in DOMAIN timeFormats : ParseInLocation(timeFormats[i], str).err = NoErr}
    IN IF fits # {}
       THEN [err |-> NoErr,
             t |-> ParseInLocation(timeFormats[CHOOSE i \in fits : \A j \in fits : i <= j], str).t]
       ELSE [err |-> ParseTimeError(str), t |-> ZeroTime]

\* a faulty check of the arguments, which lets more than one pattern pass
ArgsOkAtLeastOne(a) == Len(a) >= 1

\* if len(args) != 1
ArgsOk(a) == Len(a) = 1

\* runFind up to OpenRepository: the error it returns, or the findPattern
ParseOptions(a, o) ==
    LET none == MakePattern(<< >>, FALSE, ZeroTime, ZeroTime)
        oldest == IF o.Oldest # EmptyString THEN parseTime(o.Oldest)
                  ELSE [err |-> NoErr, t |-> ZeroTime]
        newest == IF o.Newest # EmptyString THEN parseTime(o.Newest)
                  ELSE [err |-> NoErr, t |-> ZeroTime]
    IN IF ~ArgsOk(a) THEN [err |-> WrongArgsError, pat |-> none]
       ELSE IF oldest.err # NoErr THEN [err |-> oldest.err, pat |-> none]
       ELSE IF newest.err # NoErr THEN [err |-> newest.err, pat |-> none]
       ELSE [err |-> NoErr,
             pat |-> MakePattern(a[1], o.CaseInsensitive, oldest.t, newest.t)]

\* a faulty registration, which defers the unlock only once the lock is held
DeferUnlockIfHeld(d, e) == IF e = NoErr THEN Append(d, "unlockRepo") ELSE d

\* lock, err := lockRepo(repo); defer unlockRepo(lock)
DeferUnlock(d, e) == Append(d, "unlockRepo")

\* unlockRepo(lock): releases a held lock, does nothing for a nil lock
UnlockRepo(l) == IF l = "held" THEN "released" ELSE l

\* the lock after the deferred calls have run
AfterDefers(d, l) == IF "unlockRepo" \in Range(d) THEN UnlockRepo(l) ELSE l

\* the calls the deferred functions make, last registered first
DeferredCalls(d) == [i \in 1..Len(d) |-> d[Len(d) + 1 - i]]

\* FindFilteredSnapshots: the channel is closed once every snapshot was sent
\* or the context is cancelled
ChannelClosed(n, sns, c) == n > Len(sns) \/ c

Before(t, u) == t < u

After(t, u) == t > u

\* the name findInTree hands to filepath.Match
MatchName(p, node) == IF p.ignoreCase THEN ToLower(node.name) ELSE node.name

\* m, err := filepath.Match(f.pat.pattern, name)
NameMatch(p, node) ==
    IF toolchain = "go1.15" THEN Match(p.pattern, MatchName(p, node))
    ELSE MatchStrict(p.pattern, MatchName(p, node))

\* a faulty TooOld, which also drops an entry modified exactly at the bound
TooOldAtBound(p, node) == ~IsZero(p.oldest) /\ ~After(node.mtime, p.oldest)

\* "ModTime is older than": the entry is dropped and the loop continues
TooOld(p, node) == ~IsZero(p.oldest) /\ Before(node.mtime, p.oldest)

\* "ModTime is newer than": the entry is dropped and the loop continues
TooNew(p, node) == ~IsZero(p.newest) /\ After(node.mtime, p.newest)

\* a faulty loop, which ranges over the nodes from the last to the first
NodeAtBackwards(nodes, i) == nodes[Len(nodes) + 1 - i]

\* for _, node := range tree.Nodes: the node of iteration i
NodeAt(nodes, i) == nodes[i]

\* if node.Type == "dir"
IsDir(node) == node.type = "dir"

\* a faulty Has, which never finds a tree in the cache
HasNever(nf, treeID) == FALSE

\* if f.notfound.Has(treeID)
Has(nf, treeID) == treeID \in nf

\* if !found { f.notfound.Insert(treeID) }
InsertUnlessFound(nf, treeID, found) == IF found THEN nf ELSE nf \cup {treeID}

\* a faulty check, which takes every result of the recursive call for nil
IsErrorNever(e) == FALSE

\* if err := f.findInTree(...); err != nil
IsError(e) == e # NoErr

-----------------------------------------------------------------------------
(* statefulOutput: the operations take the sink s and the stream w and     *)
(* give the sink and the stream after the call                             *)

\* json.Marshal of a node: time.Time refuses a year outside [0, 9999]
MarshalFails(node) == node.mtime >= 10000

\* the path as a string: "/" before every name on it
RECURSIVE PathText(_)
PathText(path) ==
    IF path = << >> THEN << >>
    ELSE <<PathSeparator>> \o Head(path) \o At(PathText, Tail(path))

\* encoding/json, encodeState.string, one character: a quote and a
\* backslash get a backslash before them, a line feed, a carriage return
\* and a tab are written as backslash and a letter, and "<", ">" and "&"
\* as \u00XX (json.Marshal escapes HTML); every other character of the
\* model is written as it is
EscapedChar(c) ==
    CASE c \in {"\"", "\\"} -> <<"\\", c>>
      [] c = "\n" -> <<"\\", "n">>
      [] c = "\r" -> <<"\\", "r">>
      [] c = "\t" -> <<"\\", "t">>
      [] c = "<" -> <<"\\", "u", "0", "0", "3", "c">>
      [] c = ">" -> <<"\\", "u", "0", "0", "3", "e">>
      [] c = "&" -> <<"\\", "u", "0", "0", "2", "6">>
      [] OTHER -> <<c>>

\* encoding/json, a string: its characters escaped, between quotes
RECURSIVE Escaped(_)
Escaped(chars) ==
    IF chars = << >> THEN << >>
    ELSE EscapedChar(Head(chars)) \o At(Escaped, Tail(chars))

Quoted(chars) == <<"\"">> \o Escaped(chars) \o <<"\"">>

\* the object json.Marshal renders: the path, as the JSON string it is
\* written as, and the node's attributes, its name and subtree suppressed
Rendered(prefix, node) ==
    [t |-> "rec", path |-> Quoted(PathText(Join(prefix, node.name))), type |-> node.type,
     mtime |-> node.mtime]

\* fmt, the flags of a verb
RECURSIVE SkipFlags(_)
SkipFlags(f) ==
    IF f # << >> /\ Head(f) \in {"#", "0", "+", "-", " "} THEN At(SkipFlags, Tail(f)) ELSE f

\* fmt, argNumber with no operand: an argument index "[...]" is skipped up
\* to its "]" (the "[" alone if there is no "]" or fewer than three bytes
\* are left) and is a bad index
ArgNumber(f) ==
    IF f = << >> \/ Head(f) # "[" THEN [rest |-> f, good |-> TRUE]
    ELSE LET closing == {i \in 2..Len(f) : f[i] = "]"}
             wid == IF Len(f) < 3 \/ closing = {} THEN 1
                    ELSE CHOOSE i \in closing : \A k \in closing : i <= k
         IN [rest |-> Suffix(f, wid), good |-> FALSE]

\* fmt.Sprintf(format) with no operand, on the characters of the model (no
\* digit, no "."): text is copied up to a "%"; after it come flags, an
\* argument index, a "*" width (reported as bad), an argument index, and
\* the verb: "%%" writes "%", any other verb is reported as missing its
\* operand or as badly indexed, no verb at all as such. What fmt inserts
\* is written here as one element of the sequence.
RECURSIVE Sprintf(_)
Sprintf(format) ==
    IF format = << >> THEN << >>
    ELSE IF Head(format) # "%" THEN <<Head(format)>> \o At(Sprintf, Tail(format))
    ELSE LET a1 == ArgNumber(SkipFlags(Tail(format)))
             star == a1.rest # << >> /\ Head(a1.rest) = "*"
             a2 == ArgNumber(IF star THEN Tail(a1.rest) ELSE a1.rest)
             width == IF star THEN <<"%!(BADWIDTH)">> ELSE << >>
         IN IF a2.rest = << >> THEN width \o <<"%!(NOVERB)">>
            ELSE LET verb == Head(a2.rest)
                 IN width
                    \o (IF verb = "%" THEN <<"%">>
                        ELSE IF ~(a1.good /\ a2.good) THEN <<"%!", verb, "(BADINDEX)">>
                        ELSE <<"%!", verb, "(MISSING)">>)
                    \o At(Sprintf, Tail(a2.rest))

\* Printf(string(b)): the record is the format; its path is the one part
\* of it that holds characters of the store
PrintfRecord(rec) == [rec EXCEPT !.path = Sprintf(rec.path)]

\* formatNode(prefix, node, long): the path, after the attributes if long
formatNode(prefix, node, long) == PathText(Join(prefix, node.name))

OpenArray == [t |-> "["]
OpenGroup == [t |-> "{matches:["]
Comma == [t |-> ","]
CloseArray == [t |-> "]"]
EmptyArray == [t |-> "[]"]
\* "],\"hits\":%d,\"snapshot\":%q}" with a trailing comma or without
CloseGroup(hits, sn, comma) == [t |-> "],hits,snapshot}", hits |-> hits, snapshot |-> sn, comma |-> comma]
Separator == [t |-> "sep"]
Header(sn) == [t |-> "header", snapshot |-> sn]
\* Printf(formatNode(prefix, node, s.ListLong) + "\n"): the line is the format
Line(prefix, node, long) ==
    [t |-> "line", text |-> Sprintf(formatNode(prefix, node, long) \o <<"\n">>), long |-> long]

\* a faulty PrintJSON, which forgets to record the snapshot of the group
PrintJSONForgetSnapshot(s, w, prefix, node) ==
    IF MarshalFails(node) THEN [s |-> s, w |-> w]
    ELSE
      LET w1 == IF ~s.inuse THEN Append(w, OpenArray) ELSE w
          s1 == [s EXCEPT !.inuse = TRUE]
          change == s1.newsn # s1.oldsn
          w2 == IF change /\ s1.oldsn # NilSnapshot
                THEN Append(w1, CloseGroup(s1.hits, s1.oldsn, TRUE)) ELSE w1
          w3 == IF change THEN Append(w2, OpenGroup) ELSE w2
          s2 == IF change THEN [s1 EXCEPT !.hits = 0] ELSE s1
          w4 == IF s2.hits > 0 THEN Append(w3, Comma) ELSE w3
      IN [s |-> [s2 EXCEPT !.hits = s2.hits + 1], w |-> Append(w4, PrintfRecord(Rendered(prefix, node)))]

\* a faulty PrintJSON, which counts a hit before it knows the record renders
PrintJSONCountFirst(s, w, prefix, node) ==
    IF MarshalFails(node) THEN [s |-> [s EXCEPT !.hits = s.hits + 1], w |-> w]
    ELSE
      LET w1 == IF ~s.inuse THEN Append(w, OpenArray) ELSE w
          s1 == [s EXCEPT !.inuse = TRUE]
          change == s1.newsn # s1.oldsn
          w2 == IF change /\ s1.oldsn # NilSnapshot
                THEN Append(w1, CloseGroup(s1.hits, s1.oldsn, TRUE)) ELSE w1
          w3 == IF change THEN Append(w2, OpenGroup) ELSE w2
          s2 == IF change THEN [s1 EXCEPT !.oldsn = s1.newsn, !.hits = 0] ELSE s1
          w4 == IF s2.hits > 0 THEN Append(w3, Comma) ELSE w3
      IN [s |-> [s2 EXCEPT !.hits = s2.hits + 1], w |-> Append(w4, PrintfRecord(Rendered(prefix, node)))]

\* a faulty PrintJSON, which opens the array and the group before it knows
\* the record renders
PrintJSONOpenFirst(s, w, prefix, node) ==
    LET w1 == IF ~s.inuse THEN Append(w, OpenArray) ELSE w
        s1 == [s EXCEPT !.inuse = TRUE]
        change == s1.newsn # s1.oldsn
        w2 == IF change /\ s1.oldsn # NilSnapshot
              THEN Append(w1, CloseGroup(s1.hits, s1.oldsn, TRUE)) ELSE w1
        w3 == IF change THEN Append(w2, OpenGroup) ELSE w2
        s2 == IF change THEN [s1 EXCEPT !.oldsn = s1.newsn, !.hits = 0] ELSE s1
        w4 == IF s2.hits > 0 THEN Append(w3, Comma) ELSE w3
    IN IF MarshalFails(node) THEN [s |-> s2, w |-> w3]
       ELSE [s |-> [s2 EXCEPT !.hits = s2.hits + 1], w |-> Append(w4, PrintfRecord(Rendered(prefix, node)))]

\* statefulOutput.PrintJSON
PrintJSON(s, w, prefix, node) ==
    IF MarshalFails(node) THEN [s |-> s, w |-> w]
    ELSE
      LET w1 == IF ~s.inuse THEN Append(w, OpenArray) ELSE w
          s1 == [s EXCEPT !.inuse = TRUE]
          change == s1.newsn # s1.oldsn
          w2 == IF change /\ s1.oldsn # NilSnapshot
                THEN Append(w1, CloseGroup(s1.hits, s1.oldsn, TRUE)) ELSE w1
          w3 == IF change THEN Append(w2, OpenGroup) ELSE w2
          s2 == IF change THEN [s1 EXCEPT !.oldsn = s1.newsn, !.hits = 0] ELSE s1
          w4 == IF s2.hits > 0 THEN Append(w3, Comma) ELSE w3
      IN [s |-> [s2 EXCEPT !.hits = s2.hits + 1], w |-> Append(w4, PrintfRecord(Rendered(prefix, node)))]

\* a faulty PrintNormal, which forgets to record the snapshot of the group
PrintNormalForgetSnapshot(s, w, prefix, node) ==
    LET change == s.newsn # s.oldsn
        w1 == IF change /\ s.oldsn # NilSnapshot THEN Append(w, Separator) ELSE w
        w2 == IF change THEN Append(w1, Header(s.newsn)) ELSE w1
    IN [s |-> s, w |-> Append(w2, Line(prefix, node, s.ListLong))]

\* statefulOutput.PrintNormal
PrintNormal(s, w, prefix, node) ==
    LET change == s.newsn # s.oldsn
        w1 == IF change /\ s.oldsn # NilSnapshot THEN Append(w, Separator) ELSE w
        s1 == IF change THEN [s EXCEPT !.oldsn = s.newsn] ELSE s
        w2 == IF change THEN Append(w1, Header(s1.oldsn)) ELSE w1
    IN [s |-> s1, w |-> Append(w2, Line(prefix, node, s.ListLong))]

\* statefulOutput.Print
SinkPrint(s, w, prefix, node) ==
    IF s.JSON THEN PrintJSON(s, w, prefix, node) ELSE PrintNormal(s, w, prefix, node)

\* a faulty Finish, which closes an array that was never opened
FinishNoEmpty(s, w) ==
    IF s.JSON
    THEN LET w1 == IF s.oldsn # NilSnapshot
                   THEN Append(w, CloseGroup(s.hits, s.oldsn, FALSE)) ELSE w
         IN Append(w1, CloseArray)
    ELSE w

\* statefulOutput.Finish: the stream after the call
Finish(s, w) ==
    IF s.JSON
    THEN LET w1 == IF s.oldsn # NilSnapshot
                   THEN Append(w, CloseGroup(s.hits, s.oldsn, FALSE)) ELSE w
         IN IF s.inuse THEN Append(w1, CloseArray) ELSE Append(w1, EmptyArray)
    ELSE w

NewOutput(listLong, json) ==
    [ListLong |-> listLong, JSON |-> json, inuse |-> FALSE,
     newsn |-> NilSnapshot, oldsn |-> NilSnapshot, hits |-> 0]


-----------------------------------------------------------------------------
(* The inputs: stores of trees, snapshot sequences and search criteria *)

\* Subtree of a node that is no directory
NoTree == 0

File(n, t) == [name |-> n, type |-> "file", mtime |-> t, subtree |-> NoTree]

Dir(n, t, sub) == [name |-> n, type |-> "dir", mtime |-> t, subtree |-> sub]

\* the names of the model, in byte order: a tree keeps its nodes sorted by
\* name and holds a name once
NameOrder == << <<"A">>, <<"a">>, <<"a", "b">>, <<"b">> >>

Rank(n) == CHOOSE i \in DOMAIN NameOrder : NameOrder[i] = n

SortedTrees(E) ==
    {s \in UNION {[1..k -> E] : k \in 0..Cardinality({e.name : e \in E})} :
        \A i \in 1..(Len(s) - 1) : Rank(s[i].name) < Rank(s[i + 1].name)}

\* TreeIDs are content-derived: two of them never name the same content
ContentAddressed(r) == \A i, j \in DOMAIN r : r[i] = r[j] => i = j

SnapshotSeqs(roots) == UNION {[1..k -> roots] : k \in 0..MaxSnapshots}

\* the command line of a search: one pattern, the options
Options(oldest, newest, ci, long, nolock, json) ==
    [Oldest |-> oldest, Newest |-> newest, CaseInsensitive |-> ci,
     ListLong |-> long, NoLock |-> nolock, JSON |-> json]

\* the Go releases the program is built with: path/filepath before Go 1.16
\* and from Go 1.16 on
Toolchains == {"go1.15", "go1.16"}

\* the time bounds of the command line: unset, or the instant 2
Windows == {EmptyString, TimeString("2006-01-02", 2)}

(* Family A: three trees that share subtrees, searched for the name "a" by *)
(* up to MaxSnapshots snapshots rooted at tree 1 or tree 2. The pattern is *)
(* well-formed: the releases of path/filepath agree on it, one is taken.   *)
EntriesA(k) ==
    CASE k = 1 -> {File(<<"a">>, 2), File(<<"a">>, 10000), File(<<"b">>, 2)}
                  \cup {Dir(n, 2, sub) : n \in {<<"a">>, <<"b">>}, sub \in {2, 3}}
      [] k = 2 -> {File(<<"a">>, 2), Dir(<<"a">>, 2, 3), Dir(<<"b">>, 2, 3)}
      [] k = 3 -> {File(<<"a">>, 2), File(<<"a">>, 10000)}

StoresA ==
    {r \in {[k \in 1..3 |-> IF k = 1 THEN t1 ELSE IF k = 2 THEN t2 ELSE t3] :
                t1 \in SortedTrees(EntriesA(1)),
                t2 \in SortedTrees(EntriesA(2)),
                t3 \in SortedTrees(EntriesA(3))} : ContentAddressed(r)}

ConfigsA ==
    {[toolchain |-> "go1.15", repo |-> r, snapshots |-> sns, args |-> << <<"a">> >>,
      opts |-> Options(EmptyString, EmptyString, FALSE, FALSE, FALSE, json)] :
        r \in StoresA, sns \in SnapshotSeqs({1, 2}), json \in BOOLEAN}

(* Family B: one directory holding one file, every name, modification time, *)
(* pattern, case folding and time window, searched by one snapshot. The     *)
(* releases of path/filepath agree on these patterns and names.             *)
NamesB == {<<"a">>, <<"A">>, <<"a", "b">>}

PatternsB == {<<"a">>, <<"A">>, <<"a", "*">>, <<"?">>, <<"[">>}

StoresB ==
    {[k \in 1..2 |-> IF k = 1 THEN <<Dir(n1, t1, 2)>> ELSE <<File(n2, t2)>>] :
        n1 \in NamesB, t1 \in 1..3, n2 \in NamesB, t2 \in {1, 2, 3, 10000}}

ConfigsB ==
    {[toolchain |-> "go1.16", repo |-> r, snapshots |-> <<1>>, args |-> <<p>>,
      opts |-> Options(o, n, ci, ~json, FALSE, json)] :
        r \in StoresB, p \in PatternsB, ci \in BOOLEAN,
        o \in Windows, n \in Windows, json \in BOOLEAN}

(* Family C: the command lines: no, one or two patterns, time bounds that *)
(* parse and that do not, with and without the repository lock.          *)
TimeStringsC ==
    {EmptyString, TimeString("2006-01-02", 2), TimeString("02.01.2006 15:04", 2),
     TimeString("2006-01-02T15:04:05Z07:00", 2), TimeString("yesterday", 2)}

ConfigsC ==
    {[toolchain |-> tc,
      repo |-> [k \in 1..2 |-> IF k = 1 THEN <<File(<<"a">>, 2), Dir(<<"b">>, 2, 2)>>
                                        ELSE <<File(<<"a">>, 3)>>],
      snapshots |-> <<1, 2>>, args |-> a,
      opts |-> Options(o, n, FALSE, FALSE, nolock, json)] :
        tc \in Toolchains,
        a \in {<< >>, << <<"a">> >>, << <<"[">> >>, << <<"a">>, <<"b">> >>},
        o \in TimeStringsC, n \in TimeStringsC,
        nolock \in BOOLEAN, json \in BOOLEAN}

(* Family D: one directory holding one file, names with the characters the *)
(* matcher, json.Marshal and Printf give a meaning to, patterns with       *)
(* classes, ranges and escapes, well-formed and not, under both releases   *)
(* of path/filepath.                                                       *)
NamesD ==
    {<<"a">>, <<"a", "\n", "b">>, <<"-">>, <<"]">>, <<"a", "%">>, <<"a", "%", "d">>, <<"%", "%">>}

PatternsD ==
    {<<"*">>, <<"a", "*">>, <<"[", "^", "a", "]">>, <<"[", "a", "-", "b", "]">>,
     <<"[", "\\", "]", "]">>, <<"\\", "a">>, <<"[", "]", "a", "]">>,
     <<"[", "a", "-", "]">>, <<"a", "[">>, <<"*", "[">>}

StoresD ==
    {[k \in 1..2 |-> IF k = 1 THEN <<Dir(n1, 2, 2)>> ELSE <<File(n2, 2)>>] :
        n1 \in NamesD, n2 \in NamesD}

ConfigsD ==
    {[toolchain |-> tc, repo |-> r, snapshots |-> <<1>>, args |-> <<p>>,
      opts |-> Options(EmptyString, EmptyString, FALSE, ~json, FALSE, json)] :
        tc \in Toolchains, r \in StoresD, p \in PatternsD, json \in BOOLEAN}

-----------------------------------------------------------------------------
(* runFind, Finder.findInSnapshot and Finder.findInTree *)

\* the state in which runFind is called: the command line, the repository
\* and the snapshots its filter selects; the Finder is not built yet
Init ==
    \E c \in ConfigsA \cup ConfigsB \cup ConfigsC \cup ConfigsD :
        /\ toolchain = c.toolchain
        /\ args = c.args
        /\ opts = c.opts
        /\ cancelled = FALSE
        /\ lock = "none"
        /\ defers = << >>
        /\ events = << >>
        /\ repo = c.repo
        /\ snapshots = c.snapshots
        /\ pat = MakePattern(<< >>, FALSE, ZeroTime, ZeroTime)
        /\ out = NewOutput(FALSE, FALSE)
        /\ notfound = {}
        /\ stack = << >>
        /\ next = 1
        /\ pc = "start"
        /\ err = NoErr
        /\ stdout = << >>
        /\ loads = << >>
        /\ invoked = << >>
        /\ calls = << >>

Frame(treeID, prefix) ==
    [treeID |-> treeID, prefix |-> prefix, nodes |-> << >>, i |-> 1, found |-> FALSE]

Top == stack[Len(stack)]

Pop(st) == SubSeq(st, 1, Len(st) - 1)

SetTop(st, f) == [st EXCEPT ![Len(st)] = f]

\* where control goes when the call on top of the stack returns nil
AfterReturn(st) == IF Len(st) = 1 THEN "loop" ELSE "scan"

\* runFind returns: the deferred calls run
Return(e) ==
    /\ pc' = "done"
    /\ err' = e
    /\ lock' = AfterDefers(defers, lock)
    /\ events' = events \o DeferredCalls(defers)
    /\ defers' = << >>

search == <<repo, snapshots, out, notfound, stack, next, stdout, loads, invoked, calls>>

\* runFind checks the arguments and parses the time bounds
CheckOptions ==
    /\ pc = "start"
    /\ LET r == ParseOptions(args, opts)
       IN IF r.err # NoErr
          THEN /\ Return(r.err)
               /\ pat' = pat
          ELSE /\ pat' = r.pat
               /\ pc' = "open"
               /\ UNCHANGED <<err, lock, events, defers>>
    /\ UNCHANGED <<toolchain, args, opts, cancelled>>
    /\ UNCHANGED search

\* OpenRepository(gopts) gives the repository
OpenRepositoryOk ==
    /\ pc = "open"
    /\ events' = Append(events, "OpenRepository")
    /\ pc' = "lock"
    /\ UNCHANGED <<toolchain, args, opts, cancelled, lock, defers, pat, err>>
    /\ UNCHANGED search

\* OpenRepository(gopts) fails
OpenRepositoryFails ==
    /\ pc = "open"
    /\ pc' = "done"
    /\ err' = OpenError
    /\ lock' = AfterDefers(defers, lock)
    /\ events' = Append(events, "OpenRepository") \o DeferredCalls(defers)
    /\ defers' = << >>
    /\ UNCHANGED <<toolchain, args, opts, cancelled, pat>>
    /\ UNCHANGED search

\* gopts.NoLock: the repository is not locked
NoLock ==
    /\ pc = "lock"
    /\ opts.NoLock
    /\ pc' = "index"
    /\ UNCHANGED <<toolchain, args, opts, cancelled, lock, defers, events, pat, err>>
    /\ UNCHANGED search

\* lockRepo(repo) gives the lock; its release is deferred
LockRepoOk ==
    /\ pc = "lock"
    /\ ~opts.NoLock
    /\ lock' = "held"
    /\ defers' = DeferUnlock(defers, NoErr)
    /\ events' = Append(events, "lockRepo")
    /\ pc' = "index"
    /\ UNCHANGED <<toolchain, args, opts, cancelled, pat, err>>
    /\ UNCHANGED search

\* lockRepo(repo) fails: the release of the nil lock is deferred, runFind returns
LockRepoFails ==
    /\ pc = "lock"
    /\ ~opts.NoLock
    /\ pc' = "done"
    /\ err' = LockError
    /\ lock' = AfterDefers(DeferUnlock(defers, LockError), "failed")
    /\ events' = Append(events, "lockRepo") \o DeferredCalls(DeferUnlock(defers, LockError))
    /\ defers' = << >>
    /\ UNCHANGED <<toolchain, args, opts, cancelled, pat>>
    /\ UNCHANGED search

\* repo.LoadIndex succeeds; runFind derives its context, defers cancel(),
\* builds the Finder and starts FindFilteredSnapshots
LoadIndexOk ==
    /\ pc = "index"
    /\ events' = events \o <<"LoadIndex", "FindFilteredSnapshots">>
    /\ defers' = Append(defers, "cancel")
    /\ out' = NewOutput(opts.ListLong, opts.JSON)
    /\ notfound' = {}
    /\ pc' = "loop"
    /\ UNCHANGED <<toolchain, args, opts, cancelled, lock, pat, err>>
    /\ UNCHANGED <<repo, snapshots, stack, next, stdout, loads, invoked, calls>>

\* repo.LoadIndex fails
LoadIndexFails ==
    /\ pc = "index"
    /\ pc' = "done"
    /\ err' = IndexError
    /\ lock' = AfterDefers(defers, lock)
    /\ events' = Append(events, "LoadIndex") \o DeferredCalls(defers)
    /\ defers' = << >>
    /\ UNCHANGED <<toolchain, args, opts, cancelled, pat>>
    /\ UNCHANGED search

\* gopts.ctx is cancelled while the search runs (the process is interrupted)
Cancel ==
    /\ pc \in {"loop", "enter", "scan"}
    /\ ~cancelled
    /\ cancelled' = TRUE
    /\ UNCHANGED <<toolchain, args, opts, lock, defers, events, pat, pc, err>>
    /\ UNCHANGED search

\* the range loop receives a snapshot: findInSnapshot sets newsn and calls
\* findInTree on the root tree with the prefix "/"
NextSnapshot ==
    /\ pc = "loop"
    /\ ~ChannelClosed(next, snapshots, cancelled)
    /\ out' = [out EXCEPT !.newsn = next]
    /\ stack' = <<Frame(snapshots[next], RootPrefix)>>
    /\ invoked' = Append(invoked, [sn |-> next, treeID |-> snapshots[next], prefix |-> RootPrefix])
    /\ next' = next + 1
    /\ pc' = "enter"
    /\ UNCHANGED <<repo, snapshots, pat, notfound, err, stdout, loads, calls>>
    /\ UNCHANGED <<toolchain, args, opts, cancelled, lock, defers, events>>

\* findInTree: the tree is in the negative cache, the call returns nil
SkipTree ==
    /\ pc = "enter"
    /\ Has(notfound, Top.treeID)
    /\ pc' = AfterReturn(stack)
    /\ stack' = Pop(stack)
    /\ UNCHANGED <<repo, snapshots, pat, out, notfound, next, err, stdout, loads,
                   invoked, calls>>
    /\ UNCHANGED <<toolchain, args, opts, cancelled, lock, defers, events>>

\* findInTree: repo.LoadTree gives the tree
LoadTreeOk ==
    /\ pc = "enter"
    /\ ~Has(notfound, Top.treeID)
    /\ loads' = Append(loads, Top.treeID)
    /\ stack' = SetTop(stack, [Top EXCEPT !.nodes = repo[Top.treeID]])
    /\ pc' = "scan"
    /\ UNCHANGED <<repo, snapshots, pat, out, notfound, next, err, stdout, invoked, calls>>
    /\ UNCHANGED <<toolchain, args, opts, cancelled, lock, defers, events>>

\* findInTree: repo.LoadTree fails, the call returns the error
LoadTreeFails ==
    /\ pc = "enter"
    /\ ~Has(notfound, Top.treeID)
    /\ loads' = Append(loads, Top.treeID)
    /\ err' = LoadError(Top.treeID)
    /\ stack' = Pop(stack)
    /\ pc' = "unwind"
    /\ UNCHANGED <<repo, snapshots, pat, out, notfound, next, stdout, invoked, calls>>
    /\ UNCHANGED <<toolchain, args, opts, cancelled, lock, defers, events>>

\* findInTree: one iteration of the loop over tree.Nodes
ScanNode ==
    /\ pc = "scan"
    /\ Top.i <= Len(Top.nodes)
    /\ \E node \in {NodeAt(Top.nodes, Top.i)} : \E m \in {NameMatch(pat, node)} :
       LET advanced == [Top EXCEPT !.i = Top.i + 1]
       IN IF m = "bad" THEN
              \* filepath.Match reports the pattern: return err
              /\ err' = ErrBadPattern
              /\ stack' = Pop(stack)
              /\ pc' = "unwind"
              /\ UNCHANGED <<out, stdout, invoked, calls>>
          ELSE IF m = "yes" /\ (TooOld(pat, node) \/ TooNew(pat, node)) THEN
              \* continue
              /\ stack' = SetTop(stack, advanced)
              /\ UNCHANGED <<out, stdout, invoked, calls, pc, err>>
          ELSE
              LET printed == IF m = "yes"
                             THEN SinkPrint(out, stdout, Top.prefix, node)
                             ELSE [s |-> out, w |-> stdout]
                  scanned == IF m = "yes" THEN [advanced EXCEPT !.found = TRUE]
                             ELSE advanced
              IN /\ out' = printed.s
                 /\ stdout' = printed.w
                 /\ calls' = IF m = "yes"
                             THEN Append(calls, [sn |-> out.newsn, prefix |-> Top.prefix, node |-> node])
                             ELSE calls
                 /\ err' = err
                 /\ IF IsDir(node)
                    THEN /\ stack' = Append(SetTop(stack, scanned),
                                            Frame(node.subtree, Join(Top.prefix, node.name)))
                         /\ invoked' = Append(invoked, [sn |-> out.newsn, treeID |-> node.subtree,
                                                        prefix |-> Join(Top.prefix, node.name)])
                         /\ pc' = "enter"
                    ELSE /\ stack' = SetTop(stack, scanned)
                         /\ invoked' = invoked
                         /\ pc' = pc
    /\ UNCHANGED <<repo, snapshots, pat, notfound, next, loads>>
    /\ UNCHANGED <<toolchain, args, opts, cancelled, lock, defers, events>>

\* findInTree: the loop is over, the tree enters the negative cache unless
\* found is set, the call returns nil
ReturnTree ==
    /\ pc = "scan"
    /\ Top.i > Len(Top.nodes)
    /\ notfound' = InsertUnlessFound(notfound, Top.treeID, Top.found)
    /\ pc' = AfterReturn(stack)
    /\ stack' = Pop(stack)
    /\ UNCHANGED <<repo, snapshots, pat, out, next, err, stdout, loads, invoked, calls>>
    /\ UNCHANGED <<toolchain, args, opts, cancelled, lock, defers, events>>

\* a call of findInTree has returned err to the findInTree that made it:
\* the caller returns the error, its own loop goes on only after nil
PropagateError ==
    /\ pc = "unwind"
    /\ stack # << >>
    /\ IF IsError(err)
       THEN /\ err' = err
            /\ pc' = "unwind"
            /\ stack' = Pop(stack)
       ELSE /\ err' = NoErr
            /\ pc' = "scan"
            /\ stack' = stack
    /\ UNCHANGED <<repo, snapshots, pat, out, notfound, next, stdout, loads, invoked, calls>>
    /\ UNCHANGED <<toolchain, args, opts, cancelled, lock, defers, events>>

\* findInSnapshot returns the error and runFind returns it: Finish is not called
ReturnError ==
    /\ pc = "unwind"
    /\ stack = << >>
    /\ Return(err)
    /\ UNCHANGED <<toolchain, args, opts, cancelled, pat>>
    /\ UNCHANGED search

\* the range loop is over: f.out.Finish() and return nil
FinishRun ==
    /\ pc = "loop"
    /\ ChannelClosed(next, snapshots, cancelled)
    /\ stdout' = Finish(out, stdout)
    /\ pc' = "done"
    /\ lock' = AfterDefers(defers, lock)
    /\ events' = Append(events, "Finish") \o DeferredCalls(defers)
    /\ defers' = << >>
    /\ UNCHANGED <<toolchain, args, opts, cancelled, pat, err>>
    /\ UNCHANGED <<repo, snapshots, out, notfound, stack, next, loads, invoked, calls>>

Next ==
    \/ CheckOptions
    \/ OpenRepositoryOk
    \/ OpenRepositoryFails
    \/ NoLock
    \/ LockRepoOk
    \/ LockRepoFails
    \/ LoadIndexOk
    \/ LoadIndexFails
    \/ Cancel
    \/ NextSnapshot
    \/ SkipTree
    \/ LoadTreeOk
    \/ LoadTreeFails
    \/ ScanNode
    \/ ReturnTree
    \/ PropagateError
    \/ ReturnError
    \/ FinishRun

Spec == Init /\ [][Next]_vars

\* runFind runs in one goroutine and every call it makes returns: a step
\* that can be taken is taken
FairSpec == Spec /\ WF_vars(Next)


-----------------------------------------------------------------------------
(* Reference definitions the claims are stated with *)

\* the criteria as the specification states them: the name matches and the
\* modification time lies in the inclusive window, an unset bound being open
Accepts(node) ==
    /\ NameMatch(pat, node) = "yes"
    /\ (pat.oldest = ZeroTime \/ node.mtime >= pat.oldest)
    /\ (pat.newest = ZeroTime \/ node.mtime <= pat.newest)

\* the cache-free walk: every accepted entry reachable from a tree, with its path
RECURSIVE RefWalk(_, _)
RefWalk(treeID, prefix) ==
    UNION {
        (IF Accepts(repo[treeID][i])
         THEN {[path |-> Join(prefix, repo[treeID][i].name), node |-> repo[treeID][i]]}
         ELSE {})
        \cup
        (IF repo[treeID][i].type = "dir"
         THEN RefWalk(repo[treeID][i].subtree, Join(prefix, repo[treeID][i].name))
         ELSE {}) : i \in DOMAIN repo[treeID]}

\* what the search handed to the sink for snapshot sn
Emitted(sn) ==
    {[path |-> Join(calls[k].prefix, calls[k].node.name), node |-> calls[k].node] :
        k \in {j \in DOMAIN calls : calls[j].sn = sn}}

Completed == pc = "done" /\ err = NoErr

\* the snapshots the range loop has received
Searched == 1..(next - 1)

Invocations(treeID) == {k \in DOMAIN invoked : invoked[k].treeID = treeID}

-----------------------------------------------------------------------------
(* C1 - C6: the search engine and its negative cache *)

\* C1: every TreeID in the negative cache names a tree with no accepted entry
\* in it or in any tree below it.
C1_CacheSound == \A t \in notfound : RefWalk(t, RootPrefix) = {}

\* C2: after a search without error, the records emitted for each snapshot
\* are exactly the accepted entries the cache-free walk of its root finds.
C2_Complete ==
    Completed =>
        \A sn \in Searched : Emitted(sn) = RefWalk(snapshots[sn], RootPrefix)

\* C3 as stated: every TreeID is passed to LoadTree at most once, whether or
\* not its tree holds matches.
C3_LoadedOnce == \A t \in DOMAIN repo : Count(loads, t) <= 1

\* C3 as amended: a TreeID with no accepted entry in its tree or below it is
\* passed to LoadTree at most once, however often it is reached.
C3_MatchFreeLoadedOnce ==
    \A t \in DOMAIN repo : RefWalk(t, RootPrefix) = {} => Count(loads, t) <= 1

\* a match-free tree was reached twice and loaded once
C3_Witness ==
    \E t \in DOMAIN repo :
        /\ RefWalk(t, RootPrefix) = {}
        /\ repo[t] # << >>
        /\ Cardinality(Invocations(t)) >= 2
        /\ Count(loads, t) = 1
        /\ pc = "done"

\* C4: every directory entry the loop of findInTree has passed had findInTree
\* invoked on its subtree, with the extended prefix.
C4_DirsRecursed ==
    \A k \in DOMAIN stack :
        \A j \in 1..(stack[k].i - 1) :
            LET node == stack[k].nodes[j]
            IN IsDir(node) =>
                 [sn |-> out.newsn, treeID |-> node.subtree,
                  prefix |-> Join(stack[k].prefix, node.name)] \in Range(invoked)

\* C5: two snapshots with the same root tree, searched without error by one
\* Finder, yield the same set of matched paths.
C5_Deterministic ==
    Completed =>
        \A i, j \in Searched :
            snapshots[i] = snapshots[j] =>
                {r.path : r \in Emitted(i)} = {r.path : r \in Emitted(j)}

\* C6: an entry whose name matches, once the loop of findInTree has passed
\* it, has been handed to the sink if and only if its modification time lies
\* in the inclusive window (an unset bound is open).
C6_InclusiveWindow ==
    \A k \in DOMAIN stack :
        \A j \in 1..(stack[k].i - 1) :
            LET node == stack[k].nodes[j]
            IN NameMatch(pat, node) = "yes" =>
                 (([sn |-> out.newsn, prefix |-> stack[k].prefix, node |-> node]
                       \in Range(calls))
                  <=> (/\ (pat.oldest = ZeroTime \/ node.mtime >= pat.oldest)
                       /\ (pat.newest = ZeroTime \/ node.mtime <= pat.newest)))

\* an entry whose modification time equals both bounds was emitted
C6_Witness ==
    \E k \in DOMAIN calls :
        /\ pat.oldest # ZeroTime
        /\ calls[k].node.mtime = pat.oldest
        /\ calls[k].node.mtime = pat.newest

-----------------------------------------------------------------------------
(* C7 - C10: the structured document and storage errors *)

\* A reader of the structured stream. It accepts
\*     "[]"   or   "[" group ("}," group)* "}" "]"
\* where a group is "{matches:[" followed by records separated by commas, and
\* gives the groups read: the records of each, its hits and its snapshot.
\* st is the position in the grammar, gs the groups closed so far and ms the
\* records of the group being read.
RECURSIVE Read(_, _, _, _, _)
Read(w, i, st, gs, ms) ==
    IF i > Len(w) THEN [ok |-> st = "end", groups |-> gs]
    ELSE
      LET tok == w[i]
          bad == [ok |-> FALSE, groups |-> gs]
      IN CASE st = "start" ->
                  IF tok = EmptyArray THEN Read(w, i + 1, "end", gs, ms)
                  ELSE IF tok = OpenArray THEN Read(w, i + 1, "array", gs, ms)
                  ELSE bad
           [] st = "array" ->
                  IF tok = OpenGroup THEN Read(w, i + 1, "matches", gs, << >>)
                  ELSE bad
           [] st = "matches" ->
                  IF tok.t = "rec" THEN Read(w, i + 1, "record", gs, Append(ms, tok))
                  ELSE IF tok.t = "],hits,snapshot}" /\ ms = << >>
                  THEN Read(w, i + 1, IF tok.comma THEN "array" ELSE "closed",
                            Append(gs, [matches |-> ms, hits |-> tok.hits,
                                        snapshot |-> tok.snapshot]), << >>)
                  ELSE bad
           [] st = "record" ->
                  IF tok = Comma THEN Read(w, i + 1, "comma", gs, ms)
                  ELSE IF tok.t = "],hits,snapshot}"
                  THEN Read(w, i + 1, IF tok.comma THEN "array" ELSE "closed",
                            Append(gs, [matches |-> ms, hits |-> tok.hits,
                                        snapshot |-> tok.snapshot]), << >>)
                  ELSE bad
           [] st = "comma" ->
                  IF tok.t = "rec" THEN Read(w, i + 1, "record", gs, Append(ms, tok))
                  ELSE bad
           [] st = "closed" ->
                  IF tok = CloseArray THEN Read(w, i + 1, "end", gs, ms)
                  ELSE bad
           [] OTHER -> bad

Document == Read(stdout, 1, "start", << >>, << >>)

\* the records the document holds for snapshot sn
GroupRecords(doc, sn) ==
    UNION {Range(doc.groups[k].matches) :
             k \in {g \in DOMAIN doc.groups : doc.groups[g].snapshot = sn}}

\* JSON, the escapes of one letter and the characters they stand for
LetterEscapes == {<<"\"", "\"">>, <<"\\", "\\">>, <<"/", "/">>,
                  <<"n", "\n">>, <<"r", "\r">>, <<"t", "\t">>}

\* JSON, the \u escapes the encoder writes and the characters they stand for
UnicodeEscapes == {<<<<"0", "0", "3", "c">>, "<">>, <<<<"0", "0", "3", "e">>, ">">>,
                   <<<<"0", "0", "2", "6">>, "&">>}

\* JSON, reading a string: the characters between the quotes, an escape
\* read as the character it stands for; a bare quote ends the string, a
\* control character is not allowed in it, and a backslash before
\* anything that is no escape is an error
RECURSIVE Unescaped(_)
Unescaped(inner) ==
    IF inner = << >> THEN [ok |-> TRUE, chars |-> << >>]
    ELSE IF Head(inner) \in {"\"", "\n", "\r", "\t"} THEN [ok |-> FALSE, chars |-> << >>]
    ELSE IF Head(inner) = "\\"
    THEN (IF Len(inner) >= 2 /\ \E e \in LetterEscapes : e[1] = inner[2]
          THEN LET r == Unescaped(Suffix(inner, 2))
                   e == CHOOSE x \in LetterEscapes : x[1] = inner[2]
               IN [ok |-> r.ok, chars |-> <<e[2]>> \o r.chars]
          ELSE IF Len(inner) >= 6 /\ inner[2] = "u"
                  /\ \E e \in UnicodeEscapes : e[1] = SubSeq(inner, 3, 6)
          THEN LET r == Unescaped(Suffix(inner, 6))
                   e == CHOOSE x \in UnicodeEscapes : x[1] = SubSeq(inner, 3, 6)
               IN [ok |-> r.ok, chars |-> <<e[2]>> \o r.chars]
          ELSE [ok |-> FALSE, chars |-> << >>])
    ELSE LET r == Unescaped(Tail(inner))
         IN [ok |-> r.ok, chars |-> <<Head(inner)>> \o r.chars]

Unquoted(text) ==
    IF Len(text) >= 2 /\ Head(text) = "\"" /\ text[Len(text)] = "\""
    THEN Unescaped(SubSeq(text, 2, Len(text) - 1))
    ELSE [ok |-> FALSE, chars |-> << >>]

\* a record of the document as a reader of JSON gets it
Decoded(rec) == [path |-> Unquoted(rec.path).chars, type |-> rec.type, mtime |-> rec.mtime]

\* every record of the document is well-formed JSON
RecordsWellFormed(doc) ==
    \A g \in DOMAIN doc.groups :
        \A k \in DOMAIN doc.groups[g].matches : Unquoted(doc.groups[g].matches[k].path).ok

\* a match as a reader of the document expects it
Expected(prefix, node) ==
    [path |-> PathText(Join(prefix, node.name)), type |-> node.type, mtime |-> node.mtime]

\* the matches the sink was given for snapshot sn, as records
MatchesOf(sn) ==
    {Expected(calls[k].prefix, calls[k].node) :
        k \in {j \in DOMAIN calls : calls[j].sn = sn}}

\* those of them json.Marshal renders
RenderableMatchesOf(sn) ==
    {Expected(calls[k].prefix, calls[k].node) :
        k \in {j \in DOMAIN calls : calls[j].sn = sn /\ ~MarshalFails(calls[j].node)}}

\* the records the sink writes for them
RenderedMatchesOf(sn) ==
    {PrintfRecord(Rendered(calls[k].prefix, calls[k].node)) :
        k \in {j \in DOMAIN calls : calls[j].sn = sn /\ ~MarshalFails(calls[j].node)}}

\* the snapshot whose header precedes position i of the human-readable stream
HeaderBefore(w, i) ==
    LET hs == {j \in 1..(i - 1) : w[j].t = "header"}
    IN IF hs = {} THEN NilSnapshot
       ELSE w[CHOOSE j \in hs : \A h \in hs : h <= j].snapshot

\* the lines human-readable mode has printed under the header of snapshot sn
HumanLines(sn) ==
    {stdout[i].text : i \in {j \in DOMAIN stdout :
                               stdout[j].t = "line" /\ HeaderBefore(stdout, j) = sn}}

\* every group counts its records, at most one group names a snapshot
GroupsConsistent(doc) ==
    /\ \A g \in DOMAIN doc.groups : doc.groups[g].hits = Len(doc.groups[g].matches)
    /\ \A g, h \in DOMAIN doc.groups :
           doc.groups[g].snapshot = doc.groups[h].snapshot => g = h

\* C7: after Finish the stream is a well-formed array of groups of
\* well-formed records, each group counts its records and names their
\* snapshot, and its records read back as exactly the matches of that
\* snapshot (those that can be rendered: one that cannot is skipped), the
\* matches human-readable mode lists one on a line.
C7_RoundTrip ==
    Completed =>
        IF out.JSON
        THEN /\ Document.ok
             /\ RecordsWellFormed(Document)
             /\ GroupsConsistent(Document)
             /\ \A sn \in DOMAIN snapshots :
                    {Decoded(r) : r \in GroupRecords(Document, sn)} = RenderableMatchesOf(sn)
        ELSE \A sn \in DOMAIN snapshots :
                 HumanLines(sn) = {r.path \o <<"\n">> : r \in MatchesOf(sn)}

\* C8: a structured search that ends without error and wrote no record has
\* written the empty array and nothing else.
C8_EmptyArray ==
    (Completed /\ out.JSON /\ \A i \in DOMAIN stdout : stdout[i].t # "rec")
        => stdout = <<EmptyArray>>

\* snapshots were searched, trees loaded, nothing matched: the output is "[]"
C8_Witness ==
    /\ Completed
    /\ out.JSON
    /\ Len(snapshots) = 2
    /\ Len(loads) >= 2
    /\ stdout = <<EmptyArray>>

\* C9: when LoadTree fails in structured mode after a record was written,
\* the stream runFind leaves behind is a well-formed document.
C9_WellFormedOnError ==
    (/\ pc = "done"
     /\ out.JSON
     /\ err.kind = "LoadTree"
     /\ \E i \in DOMAIN stdout : stdout[i].t = "rec")
        => Document.ok

\* C10: from the step in which LoadTree fails on, the error stays the one
\* LoadTree gave, no tree is loaded or invoked, nothing is printed, no
\* snapshot is fetched and the cache is left alone; the failing step itself
\* prints nothing, and what was printed is never taken back.
C10_FailFast ==
    [][/\ (err.kind = "LoadTree" =>
              /\ err' = err
              /\ pc' \in {"unwind", "done"}
              /\ loads' = loads
              /\ invoked' = invoked
              /\ calls' = calls
              /\ stdout' = stdout
              /\ next' = next
              /\ notfound' = notfound)
       /\ ((err = NoErr /\ err'.kind = "LoadTree") =>
              /\ err' = LoadError(loads'[Len(loads')])
              /\ loads' = Append(loads, err'.tree)
              /\ stdout' = stdout
              /\ calls' = calls)
       /\ Len(stdout) <= Len(stdout')
       /\ SubSeq(stdout', 1, Len(stdout)) = stdout]_vars

\* runFind has returned the error of a LoadTree two calls deep, after records
\* were printed and with a snapshot left unsearched
C10_Witness ==
    /\ pc = "done"
    /\ err.kind = "LoadTree"
    /\ err.tree \notin Range(snapshots)
    /\ stdout # << >>
    /\ next <= Len(snapshots)

-----------------------------------------------------------------------------
(* C11 - C14: the command line, the repository lock and cancellation *)

\* a pattern that is not well-formed: some chunk of it is ErrBadPattern
Malformed(p) == ~RestValid(p)

\* a time bound that is given and that no layout of timeFormats parses
Unparseable(str) == str # EmptyString /\ str.layout \notin Range(timeFormats)

Position(seq, x) == CHOOSE i \in DOMAIN seq : seq[i] = x

\* C11: with an invalid pattern (on an otherwise valid command line) runFind
\* returns ErrBadPattern before the repository is opened, before any tree is
\* loaded and before any output, whatever the repository holds.
C11_BadPatternFirst ==
    (/\ Len(args) = 1
     /\ Malformed(args[1])
     /\ ~Unparseable(opts.Oldest)
     /\ ~Unparseable(opts.Newest))
        => /\ events = << >>
           /\ loads = << >>
           /\ stdout = << >>
           /\ pc = "done" => err = ErrBadPattern

\* C12: with a wrong number of arguments or a time bound that does not parse,
\* runFind returns that error, and it never opens or locks the repository,
\* requests a snapshot, loads a tree or writes output.
C12_OptionsFirst ==
    (Len(args) # 1 \/ Unparseable(opts.Oldest) \/ Unparseable(opts.Newest))
        => /\ pc \in {"start", "done"}
           /\ events = << >>
           /\ lock = "none"
           /\ loads = << >>
           /\ invoked = << >>
           /\ stdout = << >>
           /\ pc = "done" =>
                err = IF Len(args) # 1 THEN WrongArgsError
                      ELSE IF Unparseable(opts.Oldest) THEN ParseTimeError(opts.Oldest)
                      ELSE ParseTimeError(opts.Newest)

\* runFind has returned the error of the newest bound, after the oldest
\* bound was parsed
C12_Witness ==
    /\ pc = "done"
    /\ opts.Oldest # EmptyString
    /\ err = ParseTimeError(opts.Newest)
    /\ events = << >>

\* C13: unless NoLock is set, the lock is held from before the index is loaded
\* to the end of the search, so no tree is loaded without it, and once runFind
\* has returned after trying to lock, unlockRepo has been called and the lock
\* is not held.
C13_LockDiscipline ==
    ~opts.NoLock =>
        /\ pc \in {"index", "loop", "enter", "scan", "unwind"} => lock = "held"
        /\ "LoadIndex" \in Range(events) =>
               Position(events, "lockRepo") < Position(events, "LoadIndex")
        /\ (pc = "done" /\ "lockRepo" \in Range(events)) =>
               /\ lock \in {"released", "failed"}
               /\ "unlockRepo" \in Range(events)
               /\ Position(events, "lockRepo") < Position(events, "unlockRepo")
               /\ Count(events, "unlockRepo") = 1

\* runFind has returned a LoadTree error and the lock is released
C13_Witness ==
    /\ pc = "done"
    /\ err.kind = "LoadTree"
    /\ lock = "released"
    /\ ~opts.NoLock

\* C14: once the context is cancelled, no tree load is started.
C14_NoLoadAfterCancel == [][cancelled => loads' = loads]_vars

-----------------------------------------------------------------------------
(* C15 - C17: the order of the records and the human-readable listing *)

\* C15: the records the sink receives are grouped by snapshot, in the order
\* the snapshots were yielded, and the finished document holds at most one
\* group for a snapshot, the groups in that order too.
C15_Grouped ==
    /\ \A i, j \in DOMAIN calls : i < j => calls[i].sn <= calls[j].sn
    /\ (Completed /\ out.JSON) =>
           /\ Document.ok
           /\ \A g, h \in DOMAIN Document.groups :
                  g < h => Document.groups[g].snapshot < Document.groups[h].snapshot

\* a finished document with a group for the first and a group for the second
\* snapshot, the first of two records
C15_Witness ==
    /\ Completed
    /\ out.JSON
    /\ Len(Document.groups) = 2
    /\ Len(Document.groups[1].matches) = 2
    /\ Document.groups[1].snapshot = 1
    /\ Document.groups[2].snapshot = 2

Lines == {i \in DOMAIN stdout : stdout[i].t = "line"}

Headers == {i \in DOMAIN stdout : stdout[i].t = "header"}

\* the number of the line at position i among the lines
LineNumber(i) == Cardinality({j \in Lines : j <= i})

\* what C16 says of the lines and the headers, whatever the separators:
\* the lines are the matches in order, each under the header of its snapshot,
\* a snapshot has one header if it has a match and none otherwise, and a
\* header is followed by a line
HeadersGroupLines ==
    /\ Cardinality(Lines) = Len(calls)
    /\ \A i \in Lines : HeaderBefore(stdout, i) = calls[LineNumber(i)].sn
    /\ \A sn \in DOMAIN snapshots :
           Cardinality({i \in Headers : stdout[i].snapshot = sn})
               = IF \E k \in DOMAIN calls : calls[k].sn = sn THEN 1 ELSE 0
    /\ \A i \in Headers : i + 1 \in Lines
    /\ \A i \in DOMAIN stdout : stdout[i].t = "sep" => i + 1 \in Headers

\* C16 as stated: in human-readable mode every header, the first one
\* included, comes right after a separator.
C16_SeparatorBeforeEveryHeader ==
    ~opts.JSON =>
        /\ HeadersGroupLines
        /\ \A i \in Headers : i > 1 /\ stdout[i - 1].t = "sep"

\* C16 as amended: the first header opens the stream, every later header
\* comes right after a separator.
C16_SeparatorBetweenGroups ==
    ~opts.JSON =>
        /\ HeadersGroupLines
        /\ \A i \in Headers : i = 1 \/ stdout[i - 1].t = "sep"

\* two groups were listed, one of them of two lines
C16_Witness ==
    /\ ~opts.JSON
    /\ pc = "done"
    /\ Cardinality(Headers) = 2
    /\ \E i \in Lines : i + 1 \in Lines

\* the nodes below a tree in depth-first pre-order, each with the prefix of
\* its tree: a node, then what lies below it, then the node after it
RECURSIVE PreOrder(_, _, _)
PreOrder(treeID, prefix, i) ==
    IF i > Len(repo[treeID]) THEN << >>
    ELSE LET node == repo[treeID][i]
         IN <<[prefix |-> prefix, node |-> node]>>
            \o (IF node.type = "dir"
                THEN PreOrder(node.subtree, Append(prefix, node.name), 1)
                ELSE << >>)
            \o PreOrder(treeID, prefix, i + 1)

\* C17: the records of a snapshot are entries of its pre-order, each with the
\* prefix of its tree, and they are emitted in the order of the pre-order.
C17_PreOrder ==
    \A sn \in Searched :
        LET ref == PreOrder(snapshots[sn], RootPrefix, 1)
            of(k) == [prefix |-> calls[k].prefix, node |-> calls[k].node]
            mine == {k \in DOMAIN calls : calls[k].sn = sn}
        IN /\ \A k \in mine : of(k) \in Range(ref)
           /\ \A k, l \in mine : k < l => Position(ref, of(k)) < Position(ref, of(l))

\* a matching directory was emitted, then the match inside it, then a match
\* of the same snapshot under the directory after it
C17_Witness ==
    \E k \in DOMAIN calls :
        /\ k + 2 \in DOMAIN calls
        /\ calls[k].node.type = "dir"
        /\ calls[k + 1].prefix = Join(calls[k].prefix, calls[k].node.name)
        /\ calls[k + 2].sn = calls[k].sn
        /\ Len(calls[k + 2].prefix) = 1
        /\ calls[k + 2].prefix # calls[k + 1].prefix

-----------------------------------------------------------------------------
(* C18 - C19: records that do not render, and the groups of the document *)

\* the record the step hands to the sink, if it hands one
Handed == calls'[Len(calls')]

\* C18: in structured mode a record that fails to render writes nothing and
\* leaves inuse, oldsn and hits as they were, the walk goes on with the entry
\* after it (or into it, if it is a directory) without an error, and the
\* finished document is well-formed, the hits of a group counting the records
\* written in it.
C18_SkipUnrendered ==
    /\ [][(calls' # calls /\ out.JSON /\ MarshalFails(Handed.node)) =>
              /\ stdout' = stdout
              /\ out'.inuse = out.inuse /\ out'.oldsn = out.oldsn /\ out'.hits = out.hits
              /\ err' = NoErr
              /\ pc' \in {"scan", "enter"}
              /\ Len(stack') = Len(stack)
              /\ stack'[Len(stack)].i = Top.i + 1]_vars
    /\ []((Completed /\ out.JSON) =>
              /\ Document.ok
              /\ \A g \in DOMAIN Document.groups :
                     /\ Document.groups[g].hits = Len(Document.groups[g].matches)
                     /\ Range(Document.groups[g].matches)
                            = RenderedMatchesOf(Document.groups[g].snapshot))

\* a record failed to render, the record after it was written, and the
\* search completed
C18_Witness ==
    /\ Completed
    /\ out.JSON
    /\ \E k \in DOMAIN calls :
           /\ k + 1 \in DOMAIN calls
           /\ MarshalFails(calls[k].node)
           /\ ~MarshalFails(calls[k + 1].node)
           /\ calls[k + 1].sn = calls[k].sn

\* C19: in structured mode the array is open exactly when a group is, an
\* open group holds a record, every group closed was closed with hits >= 1,
\* and the finished document has a group for a snapshot exactly when a match
\* of the snapshot was written.
C19_NoEmptyGroup ==
    out.JSON =>
        /\ out.inuse <=> out.oldsn # NilSnapshot
        /\ out.oldsn # NilSnapshot => out.hits >= 1
        /\ \A i \in DOMAIN stdout : stdout[i].t = CloseGroup(0, 0, TRUE).t => stdout[i].hits >= 1
        /\ Completed =>
               /\ Document.ok
               /\ \A g \in DOMAIN Document.groups : Len(Document.groups[g].matches) >= 1
               /\ {Document.groups[g].snapshot : g \in DOMAIN Document.groups}
                      = {sn \in Searched : RenderedMatchesOf(sn) # {}}

\* two snapshots were searched, the first without a match and with no group,
\* the second with the only group of the document
C19_Witness ==
    /\ Completed
    /\ out.JSON
    /\ Searched = {1, 2}
    /\ RenderedMatchesOf(1) = {}
    /\ Len(Document.groups) = 1
    /\ Document.groups[1].snapshot = 2

-----------------------------------------------------------------------------
(* C20: termination *)

\* C20: every run ends; once an error is raised it is the error returned and
\* Finish is not called; a run that ends without an error has called Finish
\* exactly once, after the walk of the last snapshot the source yielded, when
\* the source has yielded them all or was cancelled.
C20_Terminates ==
    /\ <>(pc = "done")
    /\ [][err # NoErr => err' = err]_vars
    /\ [](Count(events, "Finish") <= 1)
    /\ []("Finish" \in Range(events) =>
              /\ pc = "done"
              /\ err = NoErr
              /\ stack = << >>
              /\ (next > Len(snapshots) \/ cancelled))
    /\ []((pc = "done" /\ err = NoErr) => Count(events, "Finish") = 1)

\* a run over two snapshots and a subtree ended with Finish, uncancelled
C20_Witness ==
    /\ pc = "done"
    /\ ~cancelled
    /\ "Finish" \in Range(events)
    /\ Searched = {1, 2}
    /\ Len(invoked) >= 3

=============================================================================
